---- MODULE Spec2Model ----
(***************************************************************************)
(* Graham's scan and Quickhull of Grahmvs_Quick_hull.py, as run by the     *)
(* script's main block: graham_scan(points), then quickhull(points), on    *)
(* one list of points with integer coordinates; and graham_scan(points)    *)
(* alone on lists that mix the origin with points far from it, where the   *)
(* double-precision sort keys of different directions can coincide.        *)
(***************************************************************************)
EXTENDS Integers, Sequences, FiniteSets

(* ---------------------------------------------------------------- bounds *)

\* coordinates of the supplied points range over 0..MaxCoord
MaxCoord == 2

\* the supplied list holds at most MaxPoints points
MaxPoints == 3

\* number of nested quickhull_util calls the interpreter allows before it
\* raises RecursionError
RecursionLimit == 7

\* the deep specification is handed lists of up to one point more than MaxPoints
DeepPoints == MaxPoints + 1

\* the far points have coordinates Far..Far + MaxCoord
Far == 94906265

Grid == (0..MaxCoord) \X (0..MaxCoord)

FarGrid == {<<Far + g[1], Far + g[2]>> : g \in Grid}

Origin == <<0, 0>>

\* max_point = None
None == <<>>

(* ------------------------------------------------------- pure functions *)

X(p) == p[1]

Y(p) == p[2]

Front(s) == SubSeq(s, 1, Len(s) - 1)

Abs(v) == IF v < 0 THEN -v ELSE v

\* mutant: the categories of the two turn directions exchanged
orientation_swapped(p, q, r) ==
    LET val == (Y(q) - Y(p)) * (X(r) - X(q)) - (X(q) - X(p)) * (Y(r) - Y(q))
    IN  IF val = 0 THEN 0 ELSE IF val > 0 THEN 2 ELSE 1

orientation(p, q, r) ==
    LET val == (Y(q) - Y(p)) * (X(r) - X(q)) - (X(q) - X(p)) * (Y(r) - Y(q))
    IN  IF val = 0 THEN 0 ELSE IF val > 0 THEN 1 ELSE 2

side(p1, p2, p) ==
    (Y(p) - Y(p1)) * (X(p2) - X(p1)) - (Y(p2) - Y(p1)) * (X(p) - X(p1))

\* tuple comparison of two points, (x, y) lexicographic
TupleLess(a, b) == X(a) < X(b) \/ (X(a) = X(b) /\ Y(a) < Y(b))

\* the part of (-pi, pi] that atan2(dy, dx) falls in:
\* 0: (-pi, 0)   1: exactly 0 (atan2(0, 0) = 0 too)   2: (0, pi)   3: exactly pi
Atan2Range(dy, dx) ==
    IF dy < 0 THEN 0
    ELSE IF dy > 0 THEN 2
    ELSE IF dx >= 0 THEN 1 ELSE 3

\* dx1 * dy2 - dy1 * dx2, twice the signed area spanned by the two directions,
\* written so that directions of nearby far points do not overflow
DirCross(dy1, dx1, dy2, dx2) == dx1 * (dy2 - dy1) - dy1 * (dx2 - dx1)

\* the real number atan2(dy1, dx1) is less than the real number atan2(dy2, dx2)
AngleLess(dy1, dx1, dy2, dx2) ==
    \/ Atan2Range(dy1, dx1) < Atan2Range(dy2, dx2)
    \/ /\ Atan2Range(dy1, dx1) = Atan2Range(dy2, dx2)
       /\ Atan2Range(dy1, dx1) \in {0, 2}
       /\ DirCross(dy1, dx1, dy2, dx2) > 0

\* size of a direction in units of 2^23, rounded up
Atan2Scale(dy, dx) ==
    (IF Abs(dy) > Abs(dx) THEN Abs(dy) ELSE Abs(dx)) \div (2 ^ 23) + 1

\* math.atan2 returns a double: two different angles whose gap
\* |cross| / (|d1| |d2|) is below about 2^-46 may be rounded to the same double;
\* whether they are depends on the last bits of the platform's atan2.  A wider
\* gap is always told apart (for sizes below 2^23: every two different angles).
Atan2MayTie(dy1, dx1, dy2, dx2) ==
    /\ Atan2Range(dy1, dx1) = Atan2Range(dy2, dx2)
    /\ Atan2Range(dy1, dx1) \in {0, 2}
    /\ DirCross(dy1, dx1, dy2, dx2) # 0
    /\ Abs(DirCross(dy1, dx1, dy2, dx2)) < Atan2Scale(dy1, dx1) * Atan2Scale(dy2, dx2)

\* the pairs of points of pts whose keys around p0 may coincide although their
\* angles differ
MayTiePairs(p0, pts) ==
    {{pts[ij[1]], pts[ij[2]]} :
        ij \in {ij \in (1..Len(pts)) \X (1..Len(pts)) :
                  /\ ij[1] < ij[2]
                  /\ Atan2MayTie(Y(pts[ij[1]]) - Y(p0), X(pts[ij[1]]) - X(p0),
                                 Y(pts[ij[2]]) - Y(p0), X(pts[ij[2]]) - X(p0))}}

\* the doubles atan2(...) of a and b are equal, T being the pairs of different
\* angles that were rounded to one double
Atan2Equal(p0, T, a, b) ==
    \/ {a, b} \in T
    \/ /\ ~AngleLess(Y(a) - Y(p0), X(a) - X(p0), Y(b) - Y(p0), X(b) - X(p0))
       /\ ~AngleLess(Y(b) - Y(p0), X(b) - X(p0), Y(a) - Y(p0), X(a) - X(p0))

\* the double atan2(...) of a is less than that of b
Atan2Less(p0, T, a, b) ==
    /\ {a, b} \notin T
    /\ AngleLess(Y(a) - Y(p0), X(a) - X(p0), Y(b) - Y(p0), X(b) - X(p0))

\* T can come from rounding: equality of doubles is transitive, and rounding
\* keeps the order of the angles, so what lies between two equal keys is equal
RoundingOf(p0, T, pts) ==
    T # {} => \A i \in 1..Len(pts) : \A j \in 1..Len(pts) : \A k \in 1..Len(pts) :
        /\ (Atan2Equal(p0, T, pts[i], pts[j]) /\ Atan2Equal(p0, T, pts[j], pts[k]))
              => Atan2Equal(p0, T, pts[i], pts[k])
        /\ (Atan2Equal(p0, T, pts[i], pts[k])
              /\ AngleLess(Y(pts[i]) - Y(p0), X(pts[i]) - X(p0),
                           Y(pts[j]) - Y(p0), X(pts[j]) - X(p0))
              /\ AngleLess(Y(pts[j]) - Y(p0), X(pts[j]) - X(p0),
                           Y(pts[k]) - Y(p0), X(pts[k]) - X(p0)))
              => Atan2Equal(p0, T, pts[i], pts[j])

\* the outcomes of computing the keys of pts: which different angles got one double
Atan2Ties(p0, pts) == {T \in SUBSET MayTiePairs(p0, pts) : RoundingOf(p0, T, pts)}

\* the sort key (atan2(p[1]-p0[1], p[0]-p0[0]), p) of a is less than that of b
KeyLess(p0, T, a, b) ==
    \/ Atan2Less(p0, T, a, b)
    \/ /\ Atan2Equal(p0, T, a, b)
       /\ TupleLess(a, b)

\* s is sorted by the key; p goes after every element whose key is not greater
RECURSIVE InsertByKey(_, _, _, _)
InsertByKey(p0, T, s, p) ==
    IF s = <<>> THEN <<p>>
    ELSE IF KeyLess(p0, T, p, s[Len(s)])
         THEN Append(InsertByKey(p0, T, Front(s), p), s[Len(s)])
         ELSE Append(s, p)

RECURSIVE SortByKey(_, _, _)
SortByKey(p0, T, s) ==
    IF s = <<>> THEN <<>>
    ELSE InsertByKey(p0, T, SortByKey(p0, T, Front(s)), s[Len(s)])

\* min(range(n), key=lambda i: (points[i][1], points[i][0])): the first such index
BottomMost(pts) ==
    CHOOSE i \in 1..Len(pts) :
        /\ \A j \in 1..Len(pts) :
              ~(Y(pts[j]) < Y(pts[i]) \/ (Y(pts[j]) = Y(pts[i]) /\ X(pts[j]) < X(pts[i])))
        /\ \A j \in 1..(i - 1) : pts[j] # pts[i]

\* mutant: the smallest x and the smallest y, each taken on its own
MinByX_box(pts) ==
    << CHOOSE x \in {X(pts[i]) : i \in 1..Len(pts)} : \A j \in 1..Len(pts) : x <= X(pts[j]),
       CHOOSE y \in {Y(pts[i]) : i \in 1..Len(pts)} : \A j \in 1..Len(pts) : y <= Y(pts[j]) >>

\* min(points, key=lambda p: p[0]): the first point with the smallest x
MinByX(pts) ==
    pts[CHOOSE i \in 1..Len(pts) :
            /\ \A j \in 1..Len(pts) : X(pts[i]) <= X(pts[j])
            /\ \A j \in 1..(i - 1) : X(pts[j]) # X(pts[i])]

\* mutant: the last point with the largest x
MaxByX_last(pts) ==
    pts[CHOOSE i \in 1..Len(pts) :
            /\ \A j \in 1..Len(pts) : X(pts[i]) >= X(pts[j])
            /\ \A j \in (i + 1)..Len(pts) : X(pts[j]) # X(pts[i])]

\* max(points, key=lambda p: p[0]): the first point with the largest x
MaxByX(pts) ==
    pts[CHOOSE i \in 1..Len(pts) :
            /\ \A j \in 1..Len(pts) : X(pts[i]) >= X(pts[j])
            /\ \A j \in 1..(i - 1) : X(pts[j]) # X(pts[i])]

\* the for loop of quickhull_util over points[1..i]: <<max_dist, max_point>>
RECURSIVE ScanMax(_, _, _, _, _)
ScanMax(pts, i, p1, p2, side_flag) ==
    IF i = 0 THEN <<0, None>>
    ELSE LET prev == ScanMax(pts, i - 1, p1, p2, side_flag)
             temp == Abs(side(p1, p2, pts[i]))
         IN  IF side(p1, p2, pts[i]) = side_flag /\ temp > prev[1]
             THEN <<temp, pts[i]>>
             ELSE prev

FindMaxPoint(pts, p1, p2, side_flag) == ScanMax(pts, Len(pts), p1, p2, side_flag)[2]

\* mutant: the negation dropped
FirstChildFlag_plain(p1, max_point, p2) == side(p1, max_point, p2)

\* side flag of the call quickhull_util(points, p1, max_point, ...)
FirstChildFlag(p1, max_point, p2) == -side(p1, max_point, p2)

\* side flag of the call quickhull_util(points, max_point, p2, ...)
SecondChildFlag(p1, max_point, p2) == -side(max_point, p2, p1)

\* mutant: only lists of fewer than 2 points are returned as they are
TooFew_two(pts) == Len(pts) < 2

\* if n < 3: return points
TooFew(pts) == Len(pts) < 3

Frame(p1, p2, side_flag) ==
    [p1 |-> p1, p2 |-> p2, side_flag |-> side_flag,
     max_point |-> None, first |-> <<>>, at |-> "scan"]

(* ------------------------------------------------------------- the state *)

VARIABLES
    points,          \* the list handed to both functions
    pc,              \* where the script is
    key_ties,        \* graham_scan: the pairs of points at different angles whose
                     \* atan2 keys came out equal
    sorted_points,   \* graham_scan: the sorted list
    idx,             \* graham_scan: position of the for loop in sorted_points
    hull,            \* graham_scan: the stack; quickhull: the list being assembled
    hull_graham,     \* what graham_scan returned
    min_point,       \* quickhull: baseline end
    max_point,       \* quickhull: baseline end
    stack,           \* the active calls of quickhull_util, outermost first
    ret,             \* <<r>> when a call of quickhull_util has just returned r
    hull_quickhull   \* what quickhull returned

vars == <<points, pc, key_ties, sorted_points, idx, hull, hull_graham, min_point, max_point,
          stack, ret, hull_quickhull>>

Start(pts) ==
    /\ points = pts
    /\ pc = "graham_scan"
    /\ key_ties = {}
    /\ sorted_points = <<>>
    /\ idx = 0
    /\ hull = <<>>
    /\ hull_graham = <<>>
    /\ min_point = None
    /\ max_point = None
    /\ stack = <<>>
    /\ ret = <<>>
    /\ hull_quickhull = <<>>

Init == \E n \in 0..MaxPoints : \E pts \in [1..n -> Grid] : Start(pts)

InitDeep == \E n \in 0..DeepPoints : \E pts \in [1..n -> Grid] : Start(pts)

InitFar == \E n \in 0..MaxPoints : \E pts \in [1..n -> {Origin} \cup FarGrid] : Start(pts)

(* ----------------------------------------------------------- graham_scan *)

GrahamTooFew ==
    /\ pc = "graham_scan"
    /\ TooFew(points)
    /\ hull_graham' = points
    /\ pc' = "quickhull"
    /\ UNCHANGED <<points, key_ties, sorted_points, idx, hull, min_point, max_point, stack, ret,
                   hull_quickhull>>

GrahamSort ==
    /\ pc = "graham_scan"
    /\ ~TooFew(points)
    /\ LET p0 == points[BottomMost(points)]
       IN  \E T \in Atan2Ties(p0, points) :
              /\ key_ties' = T
              /\ sorted_points' = SortByKey(p0, T, points)
    /\ hull' = <<>>
    /\ idx' = 1
    /\ pc' = "sweep"
    /\ UNCHANGED <<points, hull_graham, min_point, max_point, stack, ret, hull_quickhull>>

MustPop ==
    /\ Len(hull) > 1
    /\ orientation(hull[Len(hull) - 1], hull[Len(hull)], sorted_points[idx]) # 1

GrahamPop ==
    /\ pc = "sweep"
    /\ idx <= Len(sorted_points)
    /\ MustPop
    /\ hull' = Front(hull)
    /\ UNCHANGED <<points, key_ties, pc, sorted_points, idx, hull_graham, min_point, max_point,
                   stack, ret, hull_quickhull>>

GrahamPush ==
    /\ pc = "sweep"
    /\ idx <= Len(sorted_points)
    /\ ~MustPop
    /\ hull' = Append(hull, sorted_points[idx])
    /\ idx' = idx + 1
    /\ UNCHANGED <<points, key_ties, pc, sorted_points, hull_graham, min_point, max_point,
                   stack, ret, hull_quickhull>>

GrahamReturn ==
    /\ pc = "sweep"
    /\ idx > Len(sorted_points)
    /\ hull_graham' = hull
    /\ pc' = "quickhull"
    /\ UNCHANGED <<points, key_ties, sorted_points, idx, hull, min_point, max_point, stack, ret,
                   hull_quickhull>>

(* ------------------------------------------------------------- quickhull *)

QuickhullTooFew ==
    /\ pc = "quickhull"
    /\ TooFew(points)
    /\ hull_quickhull' = points
    /\ pc' = "done"
    /\ UNCHANGED <<points, key_ties, sorted_points, idx, hull, hull_graham, min_point, max_point,
                   stack, ret>>

QuickhullBaseline ==
    /\ pc = "quickhull"
    /\ ~TooFew(points)
    /\ min_point' = MinByX(points)
    /\ max_point' = MaxByX(points)
    /\ hull' = <<>>
    /\ stack' = <<Frame(MinByX(points), MaxByX(points), 1)>>
    /\ ret' = <<>>
    /\ pc' = "upper"
    /\ UNCHANGED <<points, key_ties, sorted_points, idx, hull_graham, hull_quickhull>>

Top == stack[Len(stack)]

\* the loop found no point: return []
UtilReturnEmpty ==
    /\ pc \in {"upper", "lower"}
    /\ stack # <<>>
    /\ Top.at = "scan"
    /\ FindMaxPoint(points, Top.p1, Top.p2, Top.side_flag) = None
    /\ stack' = Front(stack)
    /\ ret' = <<(<<>>)>>
    /\ UNCHANGED <<points, key_ties, pc, sorted_points, idx, hull, hull_graham, min_point,
                   max_point, hull_quickhull>>

\* the loop found max_point: call quickhull_util(points, p1, max_point, ...);
\* the call raises RecursionError, which nothing catches, when the interpreter's
\* limit of nested calls is reached
UtilCallFirst ==
    /\ pc \in {"upper", "lower"}
    /\ stack # <<>>
    /\ Top.at = "scan"
    /\ LET mp == FindMaxPoint(points, Top.p1, Top.p2, Top.side_flag)
       IN  /\ mp # None
           /\ IF Len(stack) < RecursionLimit
              THEN /\ stack' = Append([stack EXCEPT ![Len(stack)] =
                                          [@ EXCEPT !.max_point = mp, !.at = "first"]],
                                      Frame(Top.p1, mp, FirstChildFlag(Top.p1, mp, Top.p2)))
                   /\ pc' = pc
              ELSE /\ stack' = stack
                   /\ pc' = "RecursionError"
    /\ UNCHANGED <<points, key_ties, sorted_points, idx, hull, hull_graham, min_point,
                   max_point, ret, hull_quickhull>>

\* the first call returned: call quickhull_util(points, max_point, p2, ...)
UtilCallSecond ==
    /\ pc \in {"upper", "lower"}
    /\ stack # <<>>
    /\ Top.at = "first"
    /\ ret # <<>>
    /\ stack' = Append([stack EXCEPT ![Len(stack)] =
                           [@ EXCEPT !.first = ret[1], !.at = "second"]],
                       Frame(Top.max_point, Top.p2,
                             SecondChildFlag(Top.p1, Top.max_point, Top.p2)))
    /\ ret' = <<>>
    /\ UNCHANGED <<points, key_ties, pc, sorted_points, idx, hull, hull_graham, min_point,
                   max_point, hull_quickhull>>

\* the second call returned: return first + [max_point] + second
UtilReturnConcat ==
    /\ pc \in {"upper", "lower"}
    /\ stack # <<>>
    /\ Top.at = "second"
    /\ ret # <<>>
    /\ stack' = Front(stack)
    /\ ret' = <<Top.first \o <<Top.max_point>> \o ret[1]>>
    /\ UNCHANGED <<points, key_ties, pc, sorted_points, idx, hull, hull_graham, min_point,
                   max_point, hull_quickhull>>

\* hull.extend(quickhull_util(points, min_point, max_point, 1)), then the -1 call
QuickhullExtendUpper ==
    /\ pc = "upper"
    /\ stack = <<>>
    /\ ret # <<>>
    /\ hull' = hull \o ret[1]
    /\ stack' = <<Frame(min_point, max_point, -1)>>
    /\ ret' = <<>>
    /\ pc' = "lower"
    /\ UNCHANGED <<points, key_ties, sorted_points, idx, hull_graham, min_point, max_point,
                   hull_quickhull>>

\* hull.extend(lower); hull.append(min_point); hull.append(max_point); return hull
QuickhullReturn ==
    /\ pc = "lower"
    /\ stack = <<>>
    /\ ret # <<>>
    /\ hull' = hull \o ret[1] \o <<min_point, max_point>>
    /\ hull_quickhull' = hull \o ret[1] \o <<min_point, max_point>>
    /\ ret' = <<>>
    /\ pc' = "done"
    /\ UNCHANGED <<points, key_ties, sorted_points, idx, hull_graham, min_point, max_point, stack>>

Next ==
    \/ GrahamTooFew
    \/ GrahamSort
    \/ GrahamPop
    \/ GrahamPush
    \/ GrahamReturn
    \/ QuickhullTooFew
    \/ QuickhullBaseline
    \/ UtilReturnEmpty
    \/ UtilCallFirst
    \/ UtilCallSecond
    \/ UtilReturnConcat
    \/ QuickhullExtendUpper
    \/ QuickhullReturn

\* graham_scan(points) on its own
NextGraham ==
    \/ GrahamTooFew
    \/ GrahamSort
    \/ GrahamPop
    \/ GrahamPush
    \/ GrahamReturn

Spec == Init /\ [][Next]_vars

SpecDeep == InitDeep /\ [][Next]_vars

SpecGraham == InitFar /\ [][NextGraham]_vars

(* ------------------------------------------------- geometry of the claims *)

ToSet(s) == {s[i] : i \in 1..Len(s)}

\* twice the signed area of the triangle a, b, c
Cross(a, b, c) == (X(b) - X(a)) * (Y(c) - Y(a)) - (Y(b) - Y(a)) * (X(c) - X(a))

Collinear(S) == \A a \in S : \A b \in S : \A c \in S : Cross(a, b, c) = 0

\* p lies on the open segment from a to b
StrictlyBetween(a, p, b) ==
    /\ Cross(a, b, p) = 0
    /\ (X(a) - X(p)) * (X(b) - X(p)) + (Y(a) - Y(p)) * (Y(b) - Y(p)) < 0

\* p, a point of S, lies on the boundary of the convex hull of S: some line
\* through p and another point of S has all of S on one side
OnBoundary(p, S) ==
    \/ S \ {p} = {}
    \/ \E q \in S \ {p} :
          \/ \A r \in S : Cross(p, q, r) >= 0
          \/ \A r \in S : Cross(p, q, r) <= 0

\* p, a point of S, is a vertex of the convex hull of S
IsHullVertex(p, S) ==
    /\ OnBoundary(p, S)
    /\ ~\E a \in S : \E b \in S : StrictlyBetween(a, p, b)

HullVertices(S) == {p \in S : IsHullVertex(p, S)}

\* p lies inside or on the boundary of the convex hull of V
InConvexHull(p, V) == p \in V \/ ~IsHullVertex(p, V \cup {p})

Input == ToSet(points)

GrahamReturned == pc \notin {"graham_scan", "sweep"}

\* a call of quickhull_util made by quickhull itself has just returned
TopLevelReturned == pc \in {"upper", "lower"} /\ stack = <<>> /\ ret # <<>>

\* p is the pivot of graham_scan: smallest y, and smallest x among those
IsPivot(p) ==
    /\ p \in Input
    /\ \A q \in Input : Y(p) < Y(q) \/ (Y(p) = Y(q) /\ X(p) <= X(q))

\* p is the first point, in input order, whose x is the smallest
IsFirstSmallestX(p) ==
    \E i \in 1..Len(points) :
        /\ points[i] = p
        /\ \A j \in 1..Len(points) : X(points[j]) >= X(p)
        /\ \A j \in 1..(i - 1) : X(points[j]) > X(p)

\* p is the first point, in input order, whose x is the largest
IsFirstLargestX(p) ==
    \E i \in 1..Len(points) :
        /\ points[i] = p
        /\ \A j \in 1..Len(points) : X(points[j]) <= X(p)
        /\ \A j \in 1..(i - 1) : X(points[j]) < X(p)

(* ----------------------------------------------------------------- claims *)

\* C1: once both functions have returned, the points of graham_scan's result
\* and those of quickhull's result are the same set, and that set is the set
\* of vertices of the convex hull of the input.
C1_SameHullSet ==
    pc = "done" =>
        /\ ToSet(hull_graham) = ToSet(hull_quickhull)
        /\ ToSet(hull_graham) = HullVertices(Input)

\* C2: no input point lies outside the polygon spanned by graham_scan's
\* result (stated for the convex hull of the result, which contains it).
C2_Containment ==
    GrahamReturned => \A p \in Input : InConvexHull(p, ToSet(hull_graham))

\* C3: quickhull never runs into the recursion limit, no sub-problem
\* (p1, p2, side_flag) is active twice in one chain of nested quickhull_util
\* calls, and the chain is never longer than the input.
C3_Terminates ==
    /\ pc # "RecursionError"
    /\ Len(stack) <= Len(points)
    /\ \A i \in 1..Len(stack) : \A j \in 1..Len(stack) :
          i # j => <<stack[i].p1, stack[i].p2, stack[i].side_flag>>
                     # <<stack[j].p1, stack[j].p2, stack[j].side_flag>>

\* C4: for 3 or more input points, every point quickhull returns lies on the
\* boundary of the convex hull of the input, none strictly inside it.
C4_NoInteriorPoint ==
    (pc = "done" /\ Len(points) >= 3) =>
        \A p \in ToSet(hull_quickhull) : OnBoundary(p, Input)

\* C5: every point graham_scan returns and every point quickhull returns is
\* one of the input points.
C5_NoFabricatedPoint ==
    /\ ToSet(hull_graham) \subseteq Input
    /\ ToSet(hull_quickhull) \subseteq Input

C5_Witness ==
    /\ pc = "done"
    /\ Len(points) >= 3
    /\ Len(hull_graham) = 2
    /\ Len(hull_quickhull) = 3

\* C6: for fewer than 3 input points, graham_scan and quickhull each return
\* the input list itself: same points, same order, same length.
C6_TooFewUnchanged ==
    Len(points) < 3 =>
        /\ GrahamReturned => hull_graham = points
        /\ pc = "done" => hull_quickhull = points

C6_Witness ==
    /\ pc = "done"
    /\ Len(points) = 2
    /\ TupleLess(points[2], points[1])
    /\ Y(points[1]) < Y(points[2])
    /\ hull_quickhull = points

\* C7: for 3 or more collinear input points, graham_scan returns 2 points,
\* the two ends of the segment that holds all the input points.
C7_CollinearExtremes ==
    (GrahamReturned /\ Len(points) >= 3 /\ Collinear(Input)) =>
        /\ Len(hull_graham) = 2
        /\ ToSet(hull_graham) = HullVertices(Input)

\* C8: for 3 or more collinear input points, both calls of quickhull_util that
\* quickhull makes return the empty list, and quickhull returns the first
\* point of smallest x followed by the first point of largest x.
C8_CollinearQuickhull ==
    (Len(points) >= 3 /\ Collinear(Input)) =>
        /\ TopLevelReturned => ret[1] = <<>>
        /\ pc = "done" =>
              /\ Len(hull_quickhull) = 2
              /\ IsFirstSmallestX(hull_quickhull[1])
              /\ IsFirstLargestX(hull_quickhull[2])

C8_Witness ==
    /\ pc = "done"
    /\ Len(points) >= 3
    /\ Collinear(Input)
    /\ X(points[1]) = X(points[2])
    /\ points[1] # points[2]
    /\ Len(hull_quickhull) = 2

C10_FlagInherited ==
    \A k \in 1..Len(stack) :
        /\ stack[k].side_flag \in {1, -1}
        /\ k > 1 => stack[k].side_flag = stack[k - 1].side_flag
        /\ stack[k].max_point # None =>
              side(stack[k].p1, stack[k].p2, stack[k].max_point) = stack[k].side_flag

C10_Witness ==
    /\ Len(stack) = 2
    /\ stack[1].at = "second"
    /\ stack[1].side_flag = -1

====
